---- MODULE Spec2Model ----
(***************************************************************************)
(* State-machine model of ecliptic_banner_chart.py: the Morse encoder,     *)
(* the Hipparcos catalog loader, the figure loader, and main()'s layout    *)
(* and chart loops.                                                        *)
(*                                                                         *)
(* Units.  Drawing coordinates are the program's own (100 per inch).       *)
(* Angles are counted in units of 2*pi/dwg_sky_width radians, so that      *)
(* dwg_scale = dwg_sky_width/(2*pi) is exactly 1 and every comparison the  *)
(* program makes between angles and drawing coordinates is an integer      *)
(* comparison.  Magnitudes are counted in tenths.  Scaled Morse            *)
(* coordinates are exact rationals: numerators over one denominator.       *)
(***************************************************************************)
EXTENDS Integers, Sequences, FiniteSets, TLC

VARIABLES
  \* morse_coords: arguments, position, locals and return value
  string, minc, maxc, morse_pc, morse_ret,
  \* load_hip_catalog: the file's lines, lines read, locals, position
  hip_file, cat_pos, catalog, discarded, cat_pc,
  \* get_figures: the file's lines, lines read, locals, position
  fig_file, fig_pos, figures, stars_present, fig_pc,
  \* main: the loaded catalog, the layout tables, the chart loop
  hip_catalog, fig_coords, fig_max_lng, main_pc, layout_idx, chart_idx, dwg, saved

morse_vars == <<string, minc, maxc, morse_pc, morse_ret>>
cat_vars == <<hip_file, cat_pos, catalog, discarded, cat_pc>>
fig_vars == <<fig_file, fig_pos, figures, stars_present, fig_pc>>
main_vars ==
  <<hip_catalog, fig_coords, fig_max_lng, main_pc, layout_idx, chart_idx, dwg, saved>>
vars == <<morse_vars, cat_vars, fig_vars, main_vars>>

\* Sequences over S of length at most n.
SeqUpTo(S, n) == UNION {[1..k -> S] : k \in 0..n}

Max(S) == CHOOSE m \in S : \A e \in S : e <= m
Min(S) == CHOOSE m \in S : \A e \in S : m <= e

(***************************************************************************)
(* Drawing geometry (lines 31-41).                                         *)
(***************************************************************************)
dwg_dpi == 100
dwg_bleed_width == (17 * dwg_dpi) \div 2       \* 8.5 * dwg_dpi
dwg_border == dwg_dpi \div 2                   \* 0.5 * dwg_dpi
dwg_sky_width == dwg_bleed_width - 2 * dwg_border
TwoPi == dwg_sky_width                         \* the angle unit: 2*pi is the sky width
Pi == TwoPi \div 2
dwg_scale == dwg_sky_width \div TwoPi

\* x of ecl_to_dwg(lng, lat, max_lng); y depends on the latitude alone.
ecl_to_dwg(lng, max_lng) == dwg_scale * (max_lng - lng)

(***************************************************************************)
(* morse_coords (lines 118-144).                                           *)
(***************************************************************************)
alphabet ==
  "a" :> <<".", "-">> @@ "b" :> <<"-", ".", ".", ".">> @@ "c" :> <<"-", ".", "-", ".">> @@
  "d" :> <<"-", ".", ".">> @@ "e" :> <<".">> @@ "f" :> <<".", ".", "-", ".">> @@
  "g" :> <<"-", "-", ".">> @@ "h" :> <<".", ".", ".", ".">> @@ "i" :> <<".", ".">> @@
  "j" :> <<".", "-", "-", "-">> @@ "k" :> <<"-", ".", "-">> @@ "l" :> <<".", "-", ".", ".">> @@
  "m" :> <<"-", "-">> @@ "n" :> <<"-", ".">> @@ "o" :> <<"-", "-", "-">> @@
  "p" :> <<".", "-", "-", ".">> @@ "q" :> <<"-", "-", ".", "-">> @@ "r" :> <<".", "-", ".">> @@
  "s" :> <<".", ".", ".">> @@ "t" :> <<"-">> @@ "u" :> <<".", ".", "-">> @@
  "v" :> <<".", ".", ".", "-">> @@ "w" :> <<".", "-", "-">> @@ "x" :> <<"-", ".", ".", "-">> @@
  "y" :> <<"-", ".", "-", "-">> @@ "z" :> <<"-", "-", ".", ".">> @@
  "1" :> <<".", "-", "-", "-", "-">> @@ "2" :> <<".", ".", "-", "-", "-">> @@
  "3" :> <<".", ".", ".", "-", "-">> @@ "4" :> <<".", ".", ".", ".", "-">> @@
  "5" :> <<".", ".", ".", ".", ".">> @@ "6" :> <<"-", ".", ".", ".", ".">> @@
  "7" :> <<"-", "-", ".", ".", ".">> @@ "8" :> <<"-", "-", "-", ".", ".">> @@
  "9" :> <<"-", "-", "-", "-", ".">> @@ "0" :> <<"-", "-", "-", "-", "-">> @@
  ", " :> <<"-", "-", ".", ".", "-", "-">> @@ "." :> <<".", "-", ".", "-", ".", "-">> @@
  "?" :> <<".", ".", "-", "-", ".", ".">> @@ "/" :> <<"-", ".", ".", "-", ".">> @@
  "-" :> <<"-", ".", ".", ".", ".", "-">> @@ "(" :> <<"-", ".", "-", "-", ".">> @@
  ")" :> <<"-", ".", "-", "-", ".", "-">>

\* str.strip() on a sequence of characters; the inputs' only whitespace is " ".
RECURSIVE LStrip(_)
LStrip(s) == IF s # <<>> /\ Head(s) = " " THEN LStrip(Tail(s)) ELSE s

RECURSIVE RStrip(_)
RStrip(s) ==
  IF s # <<>> /\ s[Len(s)] = " " THEN RStrip(SubSeq(s, 1, Len(s) - 1)) ELSE s

Strip(s) == RStrip(LStrip(s))

\* A dot that advances the cursor by one unit too many.
MorseSymbolWideDot(symbol, x, coords) ==
  IF symbol = "-"
    THEN [x |-> x + 5, coords |-> Append(coords, <<x, x + 3>>)]
    ELSE [x |-> x + 3 + 1, coords |-> Append(coords, <<x, x + 1>>)]

\* One pass of the loop over a character's symbols (lines 135-141).
MorseSymbol(symbol, x, coords) ==
  IF symbol = "-"
    THEN [x |-> x + 5, coords |-> Append(coords, <<x, x + 3>>)]
    ELSE [x |-> x + 3, coords |-> Append(coords, <<x, x + 1>>)]

RECURSIVE MorseCode(_, _, _, _)
MorseCode(code, j, x, coords) ==
  IF j > Len(code) THEN [x |-> x, coords |-> coords]
  ELSE LET r == MorseSymbol(code[j], x, coords)
       IN  MorseCode(code, j + 1, r.x, r.coords)

\* One pass of the loop over the characters (lines 131-142); a character that
\* is not in the alphabet raises KeyError at line 134.
MorseChar(st, ch) ==
  IF ch = " " THEN [st EXCEPT !.x = @ + 6]
  ELSE IF ch \notin DOMAIN alphabet THEN [st EXCEPT !.raised = "KeyError"]
  ELSE LET r == MorseCode(alphabet[ch], 1, st.x, st.coords)
       IN  [raised |-> "none", x |-> r.x + 3, coords |-> r.coords]

\* The passes over s[lo..hi] in order, from the locals st; an exception ends
\* the loop.  The range is halved to keep the evaluation shallow.
RECURSIVE MorseLoop(_, _, _, _)
MorseLoop(s, lo, hi, st) ==
  IF lo > hi THEN st
  ELSE IF lo = hi THEN MorseChar(st, s[lo])
  ELSE LET left == MorseLoop(s, lo, (lo + hi) \div 2, st)
       IN  IF left.raised # "none" THEN left
           ELSE MorseLoop(s, (lo + hi) \div 2 + 1, hi, left)

\* Lines 128-142 on the stripped string.
MorseString(s) == MorseLoop(s, 1, Len(s), [raised |-> "none", x |-> 0, coords |-> <<>>])

\* Denominator of scale = (maxc - minc) / (x - 2)  (line 143).
MorseScaleDen(x) == x - 2

\* morse_coords(string, minc, maxc).  coords and x are the locals at line 143;
\* marks[k] = <<n1, n2>> stands for the returned pair (n1/den, n2/den), where
\* x1 * scale + minc = (x1 * (maxc - minc) + minc * den) / den.
morse_coords(s, lo, hi) ==
  LET r == MorseString(Strip(s))
      den == MorseScaleDen(r.x)
  IN  IF r.raised # "none"
        THEN [raised |-> r.raised, coords |-> r.coords, x |-> r.x, den |-> 0, marks |-> <<>>]
      ELSE IF den = 0
        THEN [raised |-> "ZeroDivisionError", coords |-> r.coords, x |-> r.x,
              den |-> 0, marks |-> <<>>]
      ELSE [raised |-> "none", coords |-> r.coords, x |-> r.x, den |-> den,
            marks |-> [k \in 1..Len(r.coords) |->
                         <<r.coords[k][1] * (hi - lo) + lo * den,
                           r.coords[k][2] * (hi - lo) + lo * den>>]]

NoRet == [raised |-> "none", coords |-> <<>>, x |-> 0, den |-> 0, marks |-> <<>>]

MorseIdle ==
  /\ string = <<>> /\ minc = 0 /\ maxc = 0
  /\ morse_pc = "idle" /\ morse_ret = NoRet

\* Bounds of the encoder's inputs.
MaxStrLen == 3
MorseInputChars == {"a", "e", "t", "-", " ", ","}
MorseEnds == {0, dwg_border, dwg_bleed_width - dwg_border}

MorseInit ==
  /\ string \in SeqUpTo(MorseInputChars, MaxStrLen)
  /\ minc \in MorseEnds
  /\ maxc \in MorseEnds
  /\ morse_pc = "call"
  /\ morse_ret = NoRet

MorseCall ==
  /\ morse_pc = "call"
  /\ morse_ret' = morse_coords(string, minc, maxc)
  /\ morse_pc' = IF morse_ret'.raised = "none" THEN "returned" ELSE morse_ret'.raised
  /\ UNCHANGED <<string, minc, maxc>>

(***************************************************************************)
(* Python floats and the parsers int() and float().                        *)
(* A float is a record: finite (v in tenths), nan, inf or -inf.            *)
(***************************************************************************)
Fin(v) == [k |-> "fin", v |-> v]
NaN == [k |-> "nan", v |-> 0]
PosInf == [k |-> "inf", v |-> 0]
NegInf == [k |-> "-inf", v |-> 0]

FloatRank(a) == CASE a.k = "-inf" -> -1 [] a.k = "inf" -> 1 [] OTHER -> 0

\* a > b and a < b on floats: every comparison with nan is false.
FloatGt(a, b) ==
  /\ a.k # "nan" /\ b.k # "nan"
  /\ \/ FloatRank(a) > FloatRank(b)
     \/ a.k = "fin" /\ b.k = "fin" /\ a.v > b.v

FloatLt(a, b) == FloatGt(b, a)

\* The largest identifier a token of the model spells.
MaxHipId == 30

\* int(token): the decimal numerals parse, every other token raises ValueError.
IntParses(tok) == \E n \in 0..MaxHipId : ToString(n) = tok
int(tok) == CHOOSE n \in 0..MaxHipId : ToString(n) = tok

\* float(token) on the tokens of the model; float() accepts "nan" and "inf".
FloatTable ==
  "0.1" :> Fin(1) @@ "0.5" :> Fin(5) @@ "3.4" :> Fin(34) @@ "3.5" :> Fin(35) @@
  "7.0" :> Fin(70) @@ "7.1" :> Fin(71) @@
  "nan" :> NaN @@ "inf" :> PosInf @@ "-inf" :> NegInf
FloatParses(tok) == tok \in DOMAIN FloatTable
float(tok) == FloatTable[tok]

(***************************************************************************)
(* Star.__init__ (lines 45-60) as load_hip_catalog uses it: cos() and      *)
(* sin() of an infinite angle raise ValueError; the derived fields are not *)
(* read by the loader.                                                     *)
(***************************************************************************)
StarRaises(ra, dec) == ra.k \in {"inf", "-inf"} \/ dec.k \in {"inf", "-inf"}
Star(hip_id, ra, dec, vmag) == [hip_id |-> hip_id, ra |-> ra, dec |-> dec, vmag |-> vmag]

(***************************************************************************)
(* load_hip_catalog (lines 63-85).  A line is its four stripped slices.    *)
(***************************************************************************)
vmag_limit == 70

\* The try block (lines 69-77): does a slice raise ValueError?
CatalogLineParses(line) ==
  /\ IntParses(line.id)
  /\ FloatParses(line.ra)
  /\ FloatParses(line.dec)
  /\ FloatParses(line.vmag)

\* Line 78: if vmag > vmag_limit: continue
CatalogSkips(vmag) == FloatGt(vmag, Fin(vmag_limit))

\* Line 76: discarded += 1
CatalogDiscard(n) == n + 1

\* One pass of the loop over the file's lines (lines 68-80).
CatalogLine(st, line) ==
  IF ~CatalogLineParses(line)
    THEN [st EXCEPT !.discarded = CatalogDiscard(st.discarded)]
  ELSE IF CatalogSkips(float(line.vmag)) THEN st
  ELSE IF StarRaises(float(line.ra), float(line.dec))
    THEN [st EXCEPT !.raised = "ValueError"]
  ELSE LET hip_id == int(line.id)
           star == Star(hip_id, float(line.ra), float(line.dec), float(line.vmag))
       IN  [st EXCEPT !.catalog =
              [i \in DOMAIN st.catalog \cup {hip_id} |->
                 IF i = hip_id THEN star ELSE st.catalog[i]]]

EmptyMap == [i \in {} |-> 0]

CatalogIdle ==
  /\ hip_file = <<>> /\ cat_pos = 0 /\ catalog = EmptyMap
  /\ discarded = 0 /\ cat_pc = "idle"

HipLine(a, b, c, d) == [id |-> a, ra |-> b, dec |-> c, vmag |-> d]

\* Bounds of the catalog file.
MaxCatLines == 2
CatLineSet ==
  { HipLine("1", "0.5", "0.1", "3.4"), HipLine("1", "0.5", "0.1", "7.0"),
    HipLine("2", "0.5", "0.1", "7.1"), HipLine("x", "0.5", "0.1", "3.4"),
    HipLine("0.5", "0.5", "0.1", "3.4"), HipLine("2", "abc", "0.1", "3.4"),
    HipLine("2", "0.5", "", "3.4"), HipLine("2", "0.5", "0.1", ""),
    HipLine("2", "0.5", "0.1", "nan"), HipLine("2", "inf", "0.1", "3.4"),
    HipLine("2", "inf", "0.1", "7.1"), HipLine("2", "0.5", "0.1", "inf"),
    HipLine("2", "0.5", "0.1", "-inf") }

CatalogInit ==
  /\ hip_file \in SeqUpTo(CatLineSet, MaxCatLines)
  /\ cat_pos = 0 /\ catalog = EmptyMap /\ discarded = 0
  /\ cat_pc = "reading"

LoadCatalogLine ==
  /\ cat_pc = "reading"
  /\ cat_pos < Len(hip_file)
  /\ LET st == CatalogLine([catalog |-> catalog, discarded |-> discarded, raised |-> "none"],
                           hip_file[cat_pos + 1])
     IN  /\ catalog' = st.catalog
         /\ discarded' = st.discarded
         /\ cat_pc' = IF st.raised = "none" THEN "reading" ELSE st.raised
  /\ cat_pos' = cat_pos + 1
  /\ UNCHANGED hip_file

\* Lines 81-85: the summary and the return.
LoadCatalogReturn ==
  /\ cat_pc = "reading"
  /\ cat_pos = Len(hip_file)
  /\ cat_pc' = "returned"
  /\ UNCHANGED <<hip_file, cat_pos, catalog, discarded>>

(***************************************************************************)
(* get_figures (lines 88-115).  A line of the file is the token list       *)
(* line.strip().split() and whether the stripped line starts with '#'.     *)
(***************************************************************************)
FigText(fields) == [comment |-> FALSE, fields |-> fields]
FigComment(fields) == [comment |-> TRUE, fields |-> fields]

\* Lines 100-105: count times, pop two identifiers, record the pair and both
\* stars.  pop(0) on an empty list raises IndexError, int() of a token that
\* is no numeral raises ValueError.
RECURSIVE FigurePairs(_, _, _, _)
FigurePairs(fields, count, fig, present) ==
  IF count = 0
    THEN [raised |-> "none", fig |-> fig, present |-> present, fields |-> fields]
  ELSE IF Len(fields) = 0
    THEN [raised |-> "IndexError", fig |-> fig, present |-> present, fields |-> fields]
  ELSE IF ~IntParses(fields[1])
    THEN [raised |-> "ValueError", fig |-> fig, present |-> present, fields |-> fields]
  ELSE IF Len(fields) = 1
    THEN [raised |-> "IndexError", fig |-> fig, present |-> present, fields |-> fields]
  ELSE IF ~IntParses(fields[2])
    THEN [raised |-> "ValueError", fig |-> fig, present |-> present, fields |-> fields]
  ELSE LET id1 == int(fields[1])
           id2 == int(fields[2])
       IN  FigurePairs(SubSeq(fields, 3, Len(fields)), count - 1,
                       Append(fig, <<id1, id2>>), present \cup {id1, id2})

MapPut(f, key, val) == [k \in DOMAIN f \cup {key} |-> IF k = key THEN val ELSE f[k]]

\* A loader that stores the figure of a line before it looks for extra data.
FigureLineStoresFirst(st, line) ==
  IF line.comment \/ line.fields = <<>> THEN st
  ELSE IF Len(line.fields) = 1 THEN [st EXCEPT !.status = "IndexError"]
  ELSE IF ~IntParses(line.fields[2]) THEN [st EXCEPT !.status = "ValueError"]
  ELSE LET name == line.fields[1]
           p == FigurePairs(SubSeq(line.fields, 3, Len(line.fields)),
                            int(line.fields[2]), <<>>, st.stars_present)
       IN  IF p.raised # "none" THEN [st EXCEPT !.status = p.raised]
           ELSE IF Len(p.fields) > 0
             THEN [figures |-> MapPut(st.figures, name, p.fig),
                   stars_present |-> p.present, status |-> "break"]
           ELSE [figures |-> MapPut(st.figures, name, p.fig),
                 stars_present |-> p.present, status |-> "next"]

\* One pass of the loop over the file's lines (lines 92-110).
FigureLine(st, line) ==
  IF line.comment \/ line.fields = <<>> THEN st
  ELSE IF Len(line.fields) = 1 THEN [st EXCEPT !.status = "IndexError"]
  ELSE IF ~IntParses(line.fields[2]) THEN [st EXCEPT !.status = "ValueError"]
  ELSE LET name == line.fields[1]
           p == FigurePairs(SubSeq(line.fields, 3, Len(line.fields)),
                            int(line.fields[2]), <<>>, st.stars_present)
       IN  IF p.raised # "none" THEN [st EXCEPT !.status = p.raised]
           ELSE IF Len(p.fields) > 0
             THEN [st EXCEPT !.stars_present = p.present, !.status = "break"]
           ELSE [figures |-> MapPut(st.figures, name, p.fig),
                 stars_present |-> p.present, status |-> "next"]

FiguresIdle ==
  /\ fig_file = <<>> /\ fig_pos = 0 /\ figures = EmptyMap
  /\ stars_present = {} /\ fig_pc = "idle"

\* Bounds of the figure file.
MaxFigLines == 3
FigLineSet ==
  { FigText(<<>>), FigComment(<<"#", "Ori", "1", "1", "2">>),
    FigText(<<"Ori", "1", "1", "2">>), FigText(<<"Ori", "1", "3", "4">>),
    FigText(<<"Tau", "2", "1", "2", "2", "3">>), FigText(<<"Tau", "0">>),
    FigText(<<"Ori", "1", "5", "6", "9">>), FigText(<<"Leo", "0", "7", "8">>),
    FigText(<<"Leo", "2", "1", "2", "3">>), FigText(<<"Leo", "x", "1", "2">>),
    FigText(<<"Leo", "1", "1", "y">>), FigText(<<"Leo">>) }

FiguresInit ==
  /\ fig_file \in SeqUpTo(FigLineSet, MaxFigLines)
  /\ fig_pos = 0 /\ figures = EmptyMap /\ stars_present = {}
  /\ fig_pc = "reading"

\* A line is read and processed; on the break the loop is left and the
\* function returns (lines 111-115); an exception leaves the function.
GetFiguresLine ==
  /\ fig_pc = "reading"
  /\ fig_pos < Len(fig_file)
  /\ LET st == FigureLine([figures |-> figures, stars_present |-> stars_present,
                           status |-> "next"], fig_file[fig_pos + 1])
     IN  /\ figures' = st.figures
         /\ stars_present' = st.stars_present
         /\ fig_pc' = CASE st.status = "next" -> "reading"
                        [] st.status = "break" -> "returned"
                        [] OTHER -> st.status
  /\ fig_pos' = fig_pos + 1
  /\ UNCHANGED fig_file

\* The file is exhausted: lines 111-115.
GetFiguresReturn ==
  /\ fig_pc = "reading"
  /\ fig_pos = Len(fig_file)
  /\ fig_pc' = "returned"
  /\ UNCHANGED <<fig_file, fig_pos, figures, stars_present>>

MainIdle ==
  /\ hip_catalog = EmptyMap /\ fig_coords = EmptyMap /\ fig_max_lng = EmptyMap
  /\ main_pc = "idle" /\ layout_idx = 0 /\ chart_idx = 0
  /\ dwg = [filename |-> "", groups |-> <<>>] /\ saved = <<>>

(***************************************************************************)
(* Specifications of the three functions on their own.                     *)
(***************************************************************************)
MorseNext == MorseCall /\ UNCHANGED <<cat_vars, fig_vars, main_vars>>
InitMorse == MorseInit /\ CatalogIdle /\ FiguresIdle /\ MainIdle
SpecMorse == InitMorse /\ [][MorseNext]_vars

CatalogNext ==
  \/ LoadCatalogLine /\ UNCHANGED <<morse_vars, fig_vars, main_vars>>
  \/ LoadCatalogReturn /\ UNCHANGED <<morse_vars, fig_vars, main_vars>>
InitCatalog == MorseIdle /\ CatalogInit /\ FiguresIdle /\ MainIdle
SpecCatalog == InitCatalog /\ [][CatalogNext]_vars

FiguresNext ==
  \/ GetFiguresLine /\ UNCHANGED <<morse_vars, cat_vars, main_vars>>
  \/ GetFiguresReturn /\ UNCHANGED <<morse_vars, cat_vars, main_vars>>
InitFigures == MorseIdle /\ CatalogIdle /\ FiguresInit /\ MainIdle
SpecFigures == InitFigures /\ [][FiguresNext]_vars

(***************************************************************************)
(* Claims about morse_coords, under SpecMorse.                             *)
(***************************************************************************)
\* C1: for a string over the Morse alphabet that is not empty once stripped
\* and minc < maxc, the first returned mark starts exactly at minc and the
\* last returned mark ends exactly at maxc.
C1_FirstAtMincLastAtMaxc ==
  (morse_pc = "returned" /\ Strip(string) # <<>> /\ minc < maxc) =>
    /\ morse_ret.marks # <<>>
    /\ morse_ret.marks[1][1] = minc * morse_ret.den
    /\ morse_ret.marks[Len(morse_ret.marks)][2] = maxc * morse_ret.den

\* C2 as amended: "a" gives a dot at (0,1) and a dash at (3,6), and the raw
\* cursor ends at x = 11.
C2_RawCoordsOfA ==
  (morse_pc = "returned" /\ string = <<"a">>) =>
    /\ morse_ret.coords = << <<0, 1>>, <<3, 6>> >>
    /\ morse_ret.x = 11

\* C2 as stated: "a" gives a dot at (0,1) and a dash at (4,7), and the raw
\* cursor ends at x = 12.
C2_AsStated ==
  (morse_pc = "returned" /\ string = <<"a">>) =>
    /\ morse_ret.coords = << <<0, 1>>, <<4, 7>> >>
    /\ morse_ret.x = 12

C2_Witness ==
  /\ morse_pc = "returned" /\ string = <<"a">>
  /\ Len(morse_ret.coords) = 2 /\ Len(morse_ret.marks) = 2

(***************************************************************************)
(* Claims about get_figures, under SpecFigures.                            *)
(***************************************************************************)
\* The grammar NAME COUNT id1 id2 ..., read off the tokens of a line.
SkippedLine(line) == line.comment \/ line.fields = <<>>
HasCount(line) ==
  ~SkippedLine(line) /\ Len(line.fields) >= 2 /\ IntParses(line.fields[2])
CountOf(line) == int(line.fields[2])
IdsParse(line, n) == \A i \in 3..(2 + n) : IntParses(line.fields[i])
WellFormedLine(line) ==
  /\ HasCount(line)
  /\ Len(line.fields) = 2 + 2 * CountOf(line)
  /\ IdsParse(line, 2 * CountOf(line))
ExtraTokenLine(line) ==
  /\ HasCount(line)
  /\ Len(line.fields) > 2 + 2 * CountOf(line)
  /\ IdsParse(line, 2 * CountOf(line))
MalformedLine(line) ==
  ~SkippedLine(line) /\ ~WellFormedLine(line) /\ ~ExtraTokenLine(line)
PairsOf(line) ==
  [i \in 1..CountOf(line) |-> <<int(line.fields[2 * i + 1]), int(line.fields[2 * i + 2])>>]
IdsOf(line) == {int(line.fields[i]) : i \in 3..(2 + 2 * CountOf(line))}

\* The figures of the well-formed lines among the first n: for a name that
\* occurs more than once, those of its last line.
WellFormedBefore(n) == {j \in 1..n : WellFormedLine(fig_file[j])}
FiguresBefore(n) ==
  [name \in {fig_file[j].fields[1] : j \in WellFormedBefore(n)} |->
     PairsOf(fig_file[Max({j \in WellFormedBefore(n) : fig_file[j].fields[1] = name})])]

\* k is the first line with leftover tokens, and get_figures gets that far.
FirstExtraLine(k) ==
  /\ k \in 1..Len(fig_file)
  /\ ExtraTokenLine(fig_file[k])
  /\ \A j \in 1..(k - 1) : SkippedLine(fig_file[j]) \/ WellFormedLine(fig_file[j])

\* C3: the first line with leftover tokens ends the reading without an
\* exception: get_figures returns, no later line is read, and the figure map
\* is exactly that of the well-formed lines before it.
C3_ExtraTokensStopLoading ==
  \A k \in 1..Len(fig_file) :
    (FirstExtraLine(k) /\ fig_pos >= k) =>
      /\ fig_pc = "returned"
      /\ fig_pos = k
      /\ figures = FiguresBefore(k - 1)

C3_Witness ==
  /\ fig_pc = "returned" /\ fig_pos = 2 /\ Len(fig_file) = 3
  /\ fig_file[1] = FigText(<<"Ori", "1", "1", "2">>)
  /\ ExtraTokenLine(fig_file[2])
  /\ WellFormedLine(fig_file[3])
  /\ figures = ("Ori" :> << <<1, 2>> >>)

\* C4: a line with malformed tokens stops the reading like a line with
\* extra tokens: get_figures returns the figures parsed so far and no
\* exception leaves it.
C4_MalformedLineIsRecoverable ==
  (fig_pos > 0 /\ MalformedLine(fig_file[fig_pos])) =>
    /\ fig_pc = "returned"
    /\ figures = FiguresBefore(fig_pos - 1)

(***************************************************************************)
(* Claims about load_hip_catalog, under SpecCatalog.                       *)
(***************************************************************************)
FloatLe(a, b) == a.k # "nan" /\ b.k # "nan" /\ ~FloatGt(a, b)
DiscardedBefore(n) == Cardinality({k \in 1..n : ~CatalogLineParses(hip_file[k])})

\* C9: the discarded count is the number of lines read that fail to parse,
\* such a line never aborts the load, loaded + discarded <= lines read, and
\* every star of the catalog has magnitude <= 7.0.
C9_DiscardCountAndMagnitudeCut ==
  /\ cat_pc \in {"reading", "returned"} =>
       /\ discarded = DiscardedBefore(cat_pos)
       /\ Cardinality(DOMAIN catalog) + discarded <= cat_pos
       /\ \A id \in DOMAIN catalog : FloatLe(catalog[id].vmag, Fin(vmag_limit))
  /\ cat_pc \notin {"reading", "returned"} => CatalogLineParses(hip_file[cat_pos])

(***************************************************************************)
(* Strings: spelling, code-point order, str.lower() and sorted().          *)
(***************************************************************************)
UpperCase ==
  <<"A", "B", "C", "D", "E", "F", "G", "H", "I", "J", "K", "L", "M",
    "N", "O", "P", "Q", "R", "S", "T", "U", "V", "W", "X", "Y", "Z">>
LowerCase ==
  <<"a", "b", "c", "d", "e", "f", "g", "h", "i", "j", "k", "l", "m",
    "n", "o", "p", "q", "r", "s", "t", "u", "v", "w", "x", "y", "z">>
IndexIn(seq, ch) == CHOOSE i \in 1..Len(seq) : seq[i] = ch
IsUpper(ch) == \E i \in 1..Len(UpperCase) : UpperCase[i] = ch

\* ord(ch) of a letter: 'A' is 65, 'a' is 97.
Ord(ch) == IF IsUpper(ch) THEN 64 + IndexIn(UpperCase, ch) ELSE 96 + IndexIn(LowerCase, ch)

\* The characters of the program's names.
Spell ==
  "Ari" :> <<"A", "r", "i">> @@
  "Tau" :> <<"T", "a", "u">> @@
  "Gem" :> <<"G", "e", "m">> @@
  "Cnc" :> <<"C", "n", "c">> @@
  "Leo" :> <<"L", "e", "o">> @@
  "Vir" :> <<"V", "i", "r">> @@
  "Lib" :> <<"L", "i", "b">> @@
  "Sco" :> <<"S", "c", "o">> @@
  "Sgr" :> <<"S", "g", "r">> @@
  "Aqr" :> <<"A", "q", "r">> @@
  "Psc" :> <<"P", "s", "c">> @@
  "Cap" :> <<"C", "a", "p">> @@
  "Background" :> <<"B", "a", "c", "k", "g", "r", "o", "u", "n", "d">> @@
  "Figures" :> <<"F", "i", "g", "u", "r", "e", "s">> @@
  "Stars" :> <<"S", "t", "a", "r", "s">> @@
  "Ecliptic" :> <<"E", "c", "l", "i", "p", "t", "i", "c">>

RECURSIVE Join(_)
Join(cs) == IF cs = <<>> THEN "" ELSE Head(cs) \o Join(Tail(cs))

\* str.lower()
lower(name) ==
  Join([i \in 1..Len(Spell[name]) |->
          IF IsUpper(Spell[name][i]) THEN LowerCase[IndexIn(UpperCase, Spell[name][i])]
          ELSE Spell[name][i]])

\* a < b on strings: by code point, a proper prefix first.
RECURSIVE CharsLess(_, _)
CharsLess(a, b) ==
  IF b = <<>> THEN FALSE
  ELSE IF a = <<>> THEN TRUE
  ELSE IF Ord(Head(a)) # Ord(Head(b)) THEN Ord(Head(a)) < Ord(Head(b))
  ELSE CharsLess(Tail(a), Tail(b))
StrLess(a, b) == CharsLess(Spell[a], Spell[b])

\* sorted() of a list of names, by insertion.
RECURSIVE Insert(_, _)
Insert(name, seq) ==
  IF seq = <<>> THEN <<name>>
  ELSE IF StrLess(name, Head(seq)) THEN <<name>> \o seq
  ELSE <<Head(seq)>> \o Insert(name, Tail(seq))
RECURSIVE sorted(_)
sorted(seq) == IF seq = <<>> THEN <<>> ELSE Insert(Head(seq), sorted(Tail(seq)))

\* sorted() of a set of integers.
RECURSIVE SortedIds(_)
SortedIds(S) == IF S = {} THEN <<>> ELSE <<Min(S)>> \o SortedIds(S \ {Min(S)})

(***************************************************************************)
(* main: the layout of the zodiac figures (lines 164-193).                 *)
(* A star of the loaded catalog is [hip_id, vmag, ecl_lng]; ecl_lng is the *)
(* value atan2 gave, in [-Pi, Pi].  Latitudes only set y coordinates.      *)
(***************************************************************************)
zodiac == <<"Ari", "Tau", "Gem", "Cnc", "Leo", "Vir", "Lib", "Sco", "Sgr", "Aqr", "Psc", "Cap">>

\* -float("inf"): below every longitude, and still so after a border is added.
NegInfLng == -(1000 * TwoPi)

\* The cut test against pi/2 instead of pi/4.
FigureIsCutHalfPi(min_lng, max_lng) == 2 * (max_lng - min_lng) > Pi

\* Line 184: max_lng - min_lng > pi / 4
FigureIsCut(min_lng, max_lng) == 4 * (max_lng - min_lng) > Pi

\* Line 189: coord_pair[i][0] < center, with center = (min_lng + max_lng) / 2
BelowCenter(lng, min_lng, max_lng) == 2 * lng < min_lng + max_lng

\* Lines 170-193 for one figure: the longitudes of the segments' end points,
\* shifted when the figure is cut, and the figure's maximum.  A star that is
\* not in the catalog raises KeyError at line 177.
FigureLayout(id_pairs, cat) ==
  LET ends == {<<k, i>> : k \in 1..Len(id_pairs), i \in 1..2}
      raw(e) == cat[id_pairs[e[1]][e[2]]].ecl_lng
  IN  IF \E e \in ends : id_pairs[e[1]][e[2]] \notin DOMAIN cat
        THEN [raised |-> "KeyError", coord_pairs |-> <<>>, max_lng |-> 0]
      ELSE IF ends = {}
        THEN [raised |-> "none", coord_pairs |-> <<>>, max_lng |-> NegInfLng]
      ELSE LET min_lng == Min({raw(e) : e \in ends})
               max_lng == Max({raw(e) : e \in ends})
               cut == FigureIsCut(min_lng, max_lng)
               lng(e) == IF cut /\ BelowCenter(raw(e), min_lng, max_lng)
                           THEN raw(e) + TwoPi ELSE raw(e)
           IN  [raised |-> "none",
                coord_pairs |-> [k \in 1..Len(id_pairs) |-> <<lng(<<k, 1>>), lng(<<k, 2>>)>>],
                max_lng |-> IF cut THEN Max({lng(e) : e \in ends}) ELSE max_lng]

\* One pass of the loop of line 169, once get_figures has returned.
LayoutFigure ==
  /\ main_pc \in {"get_figures", "layout"}
  /\ fig_pc = "returned"
  /\ LET name == zodiac[layout_idx + 1]
     IN  IF name \notin DOMAIN figures
           THEN /\ main_pc' = "KeyError"
                /\ UNCHANGED <<fig_coords, fig_max_lng, layout_idx>>
         ELSE LET r == FigureLayout(figures[name], hip_catalog)
              IN  IF r.raised # "none"
                    THEN /\ main_pc' = r.raised
                         /\ UNCHANGED <<fig_coords, fig_max_lng, layout_idx>>
                  ELSE /\ fig_coords' = MapPut(fig_coords, name, r.coord_pairs)
                       /\ fig_max_lng' = MapPut(fig_max_lng, name, r.max_lng)
                       /\ layout_idx' = layout_idx + 1
                       /\ main_pc' = IF layout_idx + 1 = Len(zodiac)
                                       THEN "background" ELSE "layout"
  /\ UNCHANGED <<hip_catalog, chart_idx, dwg, saved>>

(***************************************************************************)
(* main: the chart loop (lines 195-237) and make_svg_layer (147-157).      *)
(* A drawing is its file name and its groups; a group is its id and its    *)
(* elements.  A line keeps the name of its figure and a circle the id of   *)
(* its star, which the SVG does not.                                       *)
(***************************************************************************)
\* The anchors in the order of the list as written.
ZodiacAsListed == zodiac

\* Line 195: sorted(zodiac)
SortedZodiac == sorted(zodiac)

Filename(anchor_name) == "ecliptic_chart_beginning_with_" \o lower(anchor_name) \o ".svg"

\* Line 197: the chart's reference longitude.
ChartMaxLng(anchor_name) == fig_max_lng[anchor_name] + dwg_border \div dwg_scale

make_svg_layer(d, name) ==
  [d EXCEPT !.groups = Append(@, [id |-> lower(name), elems |-> <<>>])]

\* group.add(...) of each element, on the group make_svg_layer returned.
GroupAdd(d, elems) == [d EXCEPT !.groups[Len(d.groups)].elems = @ \o elems]

\* The offset taken when the maxima are equal too.
FigureOffsetAtEqual(max_lng, anchor_max_lng) ==
  IF max_lng >= anchor_max_lng THEN -TwoPi ELSE 0

\* Line 207: -2 * pi if fig_max_lng[name] > fig_max_lng[anchor_name] else 0.0
FigureOffset(max_lng, anchor_max_lng) ==
  IF max_lng > anchor_max_lng THEN -TwoPi ELSE 0

\* Lines 205-216: the lines of the figures, in the order of the zodiac list.
RECURSIVE FigureLines(_, _)
FigureLines(i, anchor_name) ==
  IF i > Len(zodiac) THEN <<>>
  ELSE LET name == zodiac[i]
           offset == FigureOffset(fig_max_lng[name], fig_max_lng[anchor_name])
           max_lng == ChartMaxLng(anchor_name)
       IN  [k \in 1..Len(fig_coords[name]) |->
              [fig |-> name,
               dx1 |-> ecl_to_dwg(fig_coords[name][k][1] + offset, max_lng),
               dx2 |-> ecl_to_dwg(fig_coords[name][k][2] + offset, max_lng)]]
           \o FigureLines(i + 1, anchor_name)

\* A star drawn on the edges of the canvas too.
StarOnCanvasClosed(dx1) == 0 <= dx1 /\ dx1 <= dwg_bleed_width

\* Line 225: 0.0 < dx1 < dwg_bleed_width
StarOnCanvas(dx1) == 0 < dx1 /\ dx1 < dwg_bleed_width

VmagShown == 35

\* Line 226: star.vmag < 3.5 or star.hip_id in stars_present
StarShown(star, present) == FloatLt(star.vmag, Fin(VmagShown)) \/ star.hip_id \in present

StarOffsets == <<-TwoPi, 0, TwoPi>>

\* Lines 221-227 for one star: a circle for each offset that lands on the canvas.
RECURSIVE StarCircles(_, _, _, _)
StarCircles(star, j, max_lng, present) ==
  IF j > Len(StarOffsets) THEN <<>>
  ELSE LET dx1 == ecl_to_dwg(star.ecl_lng + StarOffsets[j], max_lng)
       IN  (IF StarOnCanvas(dx1) /\ StarShown(star, present)
              THEN <<[hip_id |-> star.hip_id, cx |-> dx1]>> ELSE <<>>)
           \o StarCircles(star, j + 1, max_lng, present)

\* Lines 219-227: the stars in the order of their identifiers.
RECURSIVE CatalogCircles(_, _, _)
CatalogCircles(ids, max_lng, present) ==
  IF ids = <<>> THEN <<>>
  ELSE StarCircles(hip_catalog[Head(ids)], 1, max_lng, present)
       \o CatalogCircles(Tail(ids), max_lng, present)

EclipticText ==
  << "t", "h", "e", " ", "e", "c", "l", "i", "p", "t", "i", "c",
     " ", "-", "-", " ", "l", "a", "c", "k", "a", "w", "a", "n",
     "n", "a", " ", "a", "s", "t", "r", "o", "n", "o", "m", "i",
     "c", "a", "l", " ", "s", "o", "c", "i", "e", "t", "y" >>

\* Lines 195-202: the next anchor's drawing and its background.
ChartBackground ==
  /\ main_pc = "background"
  /\ dwg' = GroupAdd(make_svg_layer([filename |-> Filename(SortedZodiac[chart_idx]),
                                     groups |-> <<>>], "Background"),
                     <<[x |-> 0, width |-> dwg_bleed_width]>>)
  /\ main_pc' = "figures"
  /\ UNCHANGED <<hip_catalog, fig_coords, fig_max_lng, layout_idx, chart_idx, saved>>

\* Lines 204-216.
ChartFigures ==
  /\ main_pc = "figures"
  /\ dwg' = GroupAdd(make_svg_layer(dwg, "Figures"), FigureLines(1, SortedZodiac[chart_idx]))
  /\ main_pc' = "stars"
  /\ UNCHANGED <<hip_catalog, fig_coords, fig_max_lng, layout_idx, chart_idx, saved>>

\* Lines 218-227.
ChartStars ==
  /\ main_pc = "stars"
  /\ dwg' = GroupAdd(make_svg_layer(dwg, "Stars"),
                     CatalogCircles(SortedIds(DOMAIN hip_catalog),
                                    ChartMaxLng(SortedZodiac[chart_idx]), stars_present))
  /\ main_pc' = "ecliptic"
  /\ UNCHANGED <<hip_catalog, fig_coords, fig_max_lng, layout_idx, chart_idx, saved>>

\* Lines 230-234: a line for each mark (n1/den, n2/den) of the Morse text.
EclipticLines(r) ==
  [k \in 1..Len(r.marks) |-> [n1 |-> r.marks[k][1], n2 |-> r.marks[k][2], den |-> r.den]]

\* Lines 229-234, with r what morse_coords returned or raised.
EclipticGroup(r) ==
  /\ main_pc' = IF r.raised # "none" THEN r.raised ELSE "save"
  /\ dwg' = IF r.raised # "none" THEN make_svg_layer(dwg, "Ecliptic")
            ELSE GroupAdd(make_svg_layer(dwg, "Ecliptic"), EclipticLines(r))

ChartEcliptic ==
  /\ main_pc = "ecliptic"
  /\ EclipticGroup(morse_coords(EclipticText, dwg_border, dwg_bleed_width - dwg_border))
  /\ UNCHANGED <<hip_catalog, fig_coords, fig_max_lng, layout_idx, chart_idx, saved>>

\* Lines 236-237: dwg.save() writes the file; then the next anchor, if any.
ChartSave ==
  /\ main_pc = "save"
  /\ saved' = Append(saved, [filename |-> dwg.filename,
                             groups |-> [k \in 1..Len(dwg.groups) |-> dwg.groups[k].id]])
  /\ chart_idx' = chart_idx + 1
  /\ main_pc' = IF chart_idx = Len(SortedZodiac) THEN "done" ELSE "background"
  /\ UNCHANGED <<hip_catalog, fig_coords, fig_max_lng, layout_idx, dwg>>

(***************************************************************************)
(* main() from line 162, with the catalog load_hip_catalog returned.       *)
(* The inputs: a catalog with two stars for each zodiac figure and three   *)
(* for Vir, a probe star (26), a faint star (28) and a bright star (29)    *)
(* that no zodiac figure uses; a figure file with one line for each zodiac *)
(* figure, and variants of it.                                             *)
(***************************************************************************)
StarAt(id, vmag, lng) == [hip_id |-> id, vmag |-> vmag, ecl_lng |-> lng]

\* Longitudes of the stars 1..24, two for each figure in the order of zodiac.
FixedLng ==
  <<75, 100, 125, 175, 200, 250, 275, 300, 325, 350, 0, 0,
    -300, -275, -250, -225, -200, -150, -50, -25, 0, 50, -125, -75>>

MainCatalog(vir, probe_lng, probe_vmag) ==
  [id \in (1..25) \cup {26, 28, 29} |->
     CASE id = 11 -> StarAt(id, Fin(40), vir[1])
       [] id = 12 -> StarAt(id, Fin(40), vir[2])
       [] id = 25 -> StarAt(id, Fin(40), vir[3])
       [] id = 26 -> StarAt(id, probe_vmag, probe_lng)
       [] id = 28 -> StarAt(id, Fin(60), -100)
       [] id = 29 -> StarAt(id, Fin(10), 150)
       [] OTHER -> StarAt(id, Fin(40), FixedLng[id])]

StdLine(k) ==
  IF zodiac[k] = "Vir" THEN FigText(<<"Vir", "2", "11", "12", "12", "25">>)
  ELSE FigText(<<zodiac[k], "1", ToString(2 * k - 1), ToString(2 * k)>>)
StdFile == [k \in 1..Len(zodiac) |-> StdLine(k)]

FigFiles ==
  { StdFile,
    StdFile \o <<FigText(<<"Ori", "1", "26", "28", "9">>)>>,
    <<FigText(<<"Ari", "1", "26", "1">>)>> \o StdFile,
    StdFile \o <<FigText(<<"Ori", "1", "26", "28">>)>>,
    <<FigComment(<<"#", "zodiac">>), FigText(<<>>)>> \o SubSeq(StdFile, 1, 6)
      \o <<FigText(<<"Ori", "1", "26", "28", "9">>)>> \o SubSeq(StdFile, 7, 12),
    StdFile \o <<FigText(<<"Ori", "1", "26">>)>>,
    SubSeq(StdFile, 1, 11) \o <<FigText(<<"Cap", "1", "23", "30">>)>> }

\* Bounds of main's inputs.
GridPoints == 8
ProbeStep == 25
LngGrid == {Pi - k * (TwoPi \div GridPoints) : k \in 0..(GridPoints - 1)}
ProbeLngs == {l \in (-Pi)..Pi : l % ProbeStep = 0}
ProbeMags == {Fin(34), Fin(35), NaN}
VirCut == <<Pi, -350, -325>>

MainInputs ==
  {[catalog |-> MainCatalog(vir, 0, Fin(50)), file |-> StdFile] : vir \in [1..3 -> LngGrid]}
  \cup
  {[catalog |-> MainCatalog(VirCut, in[1], in[2]), file |-> in[3]] :
     in \in ProbeLngs \X ProbeMags \X FigFiles}

MainNext ==
  \/ GetFiguresLine /\ UNCHANGED <<morse_vars, cat_vars, main_vars>>
  \/ GetFiguresReturn /\ UNCHANGED <<morse_vars, cat_vars, main_vars>>
  \/ LayoutFigure /\ UNCHANGED <<morse_vars, cat_vars, fig_vars>>
  \/ ChartBackground /\ UNCHANGED <<morse_vars, cat_vars, fig_vars>>
  \/ ChartFigures /\ UNCHANGED <<morse_vars, cat_vars, fig_vars>>
  \/ ChartStars /\ UNCHANGED <<morse_vars, cat_vars, fig_vars>>
  \/ ChartEcliptic /\ UNCHANGED <<morse_vars, cat_vars, fig_vars>>
  \/ ChartSave /\ UNCHANGED <<morse_vars, cat_vars, fig_vars>>
InitMain ==
  /\ MorseIdle /\ CatalogIdle
  /\ \E in \in MainInputs : hip_catalog = in.catalog /\ fig_file = in.file
  /\ fig_pos = 0 /\ figures = EmptyMap /\ stars_present = {} /\ fig_pc = "reading"
  /\ fig_coords = EmptyMap /\ fig_max_lng = EmptyMap
  /\ main_pc = "get_figures" /\ layout_idx = 0 /\ chart_idx = 1
  /\ dwg = [filename |-> "", groups |-> <<>>] /\ saved = <<>>
SpecMain == InitMain /\ [][MainNext]_vars

(***************************************************************************)
(* Properties of main.                                                     *)
(***************************************************************************)
\* The anchors in the order sorted() gives the twelve names, and their files.
AnchorOrder ==
  <<"Aqr", "Ari", "Cap", "Cnc", "Gem", "Leo", "Lib", "Psc", "Sco", "Sgr", "Tau", "Vir">>
AnchorFiles ==
  << "ecliptic_chart_beginning_with_aqr.svg", "ecliptic_chart_beginning_with_ari.svg",
     "ecliptic_chart_beginning_with_cap.svg", "ecliptic_chart_beginning_with_cnc.svg",
     "ecliptic_chart_beginning_with_gem.svg", "ecliptic_chart_beginning_with_leo.svg",
     "ecliptic_chart_beginning_with_lib.svg", "ecliptic_chart_beginning_with_psc.svg",
     "ecliptic_chart_beginning_with_sco.svg", "ecliptic_chart_beginning_with_sgr.svg",
     "ecliptic_chart_beginning_with_tau.svg", "ecliptic_chart_beginning_with_vir.svg" >>
GroupOrder == <<"background", "figures", "stars", "ecliptic">>

\* The chart in progress has its Figures group, resp. its Stars group.
FiguresDrawn == main_pc \in {"stars", "ecliptic", "save"}
StarsDrawn == main_pc \in {"ecliptic", "save"}
AnchorMax == fig_max_lng[AnchorOrder[chart_idx]]
FigureGroup == dwg.groups[2].elems
StarGroup == dwg.groups[3].elems

\* The laid-out longitudes of a figure's vertices, and its drawn lines.
VertexLngs(name) ==
  {fig_coords[name][k][i] : k \in 1..Len(fig_coords[name]), i \in 1..2}
DrawnLines(name) == {k \in 1..Len(FigureGroup) : FigureGroup[k].fig = name}
InSkyWidth(x) == dwg_border <= x /\ x < dwg_border + dwg_sky_width
FigureInSkyWidth(name) ==
  \A k \in DrawnLines(name) :
    InSkyWidth(FigureGroup[k].dx1) /\ InSkyWidth(FigureGroup[k].dx2)

\* C5 as stated: on every chart every vertex of every zodiac figure is drawn
\* with x in [dwg_border, dwg_border + dwg_sky_width), that is, its offset
\* longitude lies in (anchor_max - 2*pi, anchor_max].
C5_AsStated ==
  FiguresDrawn => \A i \in 1..Len(zodiac) : FigureInSkyWidth(zodiac[i])

\* C5 as amended: on every chart a figure is drawn wholly in
\* [dwg_border, dwg_border + dwg_sky_width) exactly when its laid-out
\* longitudes all lie in (anchor_max - 2*pi, anchor_max] or all lie in
\* (anchor_max, anchor_max + 2*pi].
C5_WithinWidthIffOneSide ==
  FiguresDrawn =>
    \A i \in 1..Len(zodiac) :
      /\ DrawnLines(zodiac[i]) # {}
      /\ FigureInSkyWidth(zodiac[i]) <=>
           \/ \A l \in VertexLngs(zodiac[i]) : AnchorMax - TwoPi < l /\ l <= AnchorMax
           \/ \A l \in VertexLngs(zodiac[i]) : AnchorMax < l /\ l <= AnchorMax + TwoPi

\* A chart with a figure moved by -2*pi into the width, and a figure with a
\* vertex outside of it.
C5_Witness ==
  /\ FiguresDrawn
  /\ \E i \in 1..Len(zodiac) :
       /\ fig_max_lng[zodiac[i]] > AnchorMax
       /\ FigureInSkyWidth(zodiac[i])
  /\ \E i \in 1..Len(zodiac) : ~FigureInSkyWidth(zodiac[i])

\* The catalog longitudes of the end points of a figure's segments.
RawLng(name, k, i) == hip_catalog[figures[name][k][i]].ecl_lng
RawLngs(name) == {RawLng(name, k, i) : k \in 1..Len(figures[name]), i \in 1..2}
RawSpanOverQuarterPi(name) ==
  \E a \in RawLngs(name) : \E b \in RawLngs(name) : 4 * (a - b) > Pi
BelowRawMidpoint(name, l) ==
  \E a \in RawLngs(name) : \E b \in RawLngs(name) :
    /\ \A c \in RawLngs(name) : a <= c /\ c <= b
    /\ 2 * l < a + b

\* C6: for each figure laid out, if its raw span exceeds pi/4 then every
\* segment end point below the raw midpoint is shifted by 2*pi once, the
\* others are not, and fig_max_lng is the maximum of the shifted longitudes;
\* otherwise nothing is shifted and fig_max_lng is the raw maximum.
C6_ShiftBelowMidpoint ==
  \A name \in DOMAIN fig_coords :
    /\ Len(fig_coords[name]) = Len(figures[name])
    /\ \A k \in 1..Len(figures[name]) : \A i \in 1..2 :
         fig_coords[name][k][i] =
           IF RawSpanOverQuarterPi(name) /\ BelowRawMidpoint(name, RawLng(name, k, i))
             THEN RawLng(name, k, i) + TwoPi
             ELSE RawLng(name, k, i)
    /\ fig_max_lng[name] \in VertexLngs(name)
    /\ \A l \in VertexLngs(name) : l <= fig_max_lng[name]

\* Vir laid out: a cut figure whose star 12 ends two segments and is shifted
\* in both, while star 11 stays.
C6_Witness ==
  /\ "Vir" \in DOMAIN fig_coords
  /\ RawSpanOverQuarterPi("Vir")
  /\ fig_coords["Vir"][1][2] = hip_catalog[12].ecl_lng + TwoPi
  /\ fig_coords["Vir"][2][1] = hip_catalog[12].ecl_lng + TwoPi
  /\ fig_coords["Vir"][1][1] = hip_catalog[11].ecl_lng
  /\ fig_max_lng["Vir"] > Pi

\* The identifiers the figures of the returned map refer to.
FigureIds ==
  UNION {{figures[name][k][i] : k \in 1..Len(figures[name]), i \in 1..2} :
           name \in DOMAIN figures}
BelowShown(vmag) == vmag.k = "-inf" \/ (vmag.k = "fin" /\ vmag.v < VmagShown)

\* C7: the used-stars set get_figures returns is the set of identifiers of
\* the figures it returns, and a star is drawn on a chart only if its
\* magnitude is below 3.5 or a returned figure refers to it.
C7_DrawnOnlyIfBrightOrUsed ==
  StarsDrawn =>
    /\ stars_present = FigureIds
    /\ \A k \in 1..Len(StarGroup) :
         \/ BelowShown(hip_catalog[StarGroup[k].hip_id].vmag)
         \/ StarGroup[k].hip_id \in FigureIds

\* C8: the files are saved in the sorted order of the anchors under their
\* names, each with the groups Background, Figures, Stars, Ecliptic in this
\* order; a chart is begun only once the charts before it are saved, and a
\* run that ends without an exception has saved twelve files.
C8_TwelveFilesInOrder ==
  /\ Len(saved) <= Len(AnchorOrder)
  /\ \A i \in 1..Len(saved) :
       saved[i] = [filename |-> AnchorFiles[i], groups |-> GroupOrder]
  /\ main_pc \in {"figures", "stars", "ecliptic", "save"} =>
       /\ Len(saved) = chart_idx - 1
       /\ dwg.filename = AnchorFiles[chart_idx]
       /\ Len(dwg.groups) <= Len(GroupOrder)
       /\ \A k \in 1..Len(dwg.groups) : dwg.groups[k].id = GroupOrder[k]
  /\ main_pc = "save" => Len(dwg.groups) = Len(GroupOrder)
  /\ main_pc = "background" => Len(saved) = chart_idx - 1
  /\ main_pc = "done" => Len(saved) = Len(AnchorOrder)

C8_Witness == main_pc = "done" /\ Len(saved) = 12 /\ saved[12].filename = AnchorFiles[12]

\* The circles of a star on the chart in progress, and the x of its instances.
CirclesOf(id) == {k \in 1..Len(StarGroup) : StarGroup[k].hip_id = id}
InstanceX(id, offset) == dwg_scale * (AnchorMax + dwg_border - (hip_catalog[id].ecl_lng + offset))
Eligible(id) == BelowShown(hip_catalog[id].vmag) \/ id \in stars_present

====
